---- MODULE Spec2Model ----
(***************************************************************************)
(* A model of whatmp3.py: the path restructurer (change_format_name), the  *)
(* rename engine (do_rename / filename_from_tags), the dispatch of         *)
(* Transcode and Copy tasks by main, and their execution by the thread     *)
(* pool.  Strings are sequences of one-character strings, so that the      *)
(* path functions of os.path and the regular expression of                 *)
(* change_format_name are computed character by character.                 *)
(***************************************************************************)
EXTENDS Integers, Sequences, FiniteSets, TLC

(***************************************************************************)
(* Strings                                                                 *)
(***************************************************************************)
UpperAlphabet ==
    <<"A","B","C","D","E","F","G","H","I","J","K","L","M",
      "N","O","P","Q","R","S","T","U","V","W","X","Y","Z">>

LowerAlphabet ==
    <<"a","b","c","d","e","f","g","h","i","j","k","l","m",
      "n","o","p","q","r","s","t","u","v","w","x","y","z">>

\* str.lower() on one character
LowerChar(c) ==
    IF \E i \in 1..26 : UpperAlphabet[i] = c
    THEN LowerAlphabet[CHOOSE i \in 1..26 : UpperAlphabet[i] = c]
    ELSE c

\* str.lower()
Lower(s) == [i \in 1..Len(s) |-> LowerChar(s[i])]

StartsWithAt(s, i, pre) ==
    /\ i + Len(pre) - 1 <= Len(s)
    /\ \A k \in 1..Len(pre) : s[i + k - 1] = pre[k]

EndsWith(s, suf) ==
    /\ Len(suf) <= Len(s)
    /\ \A k \in 1..Len(suf) : s[Len(s) - Len(suf) + k] = suf[k]

\* s[i:] of Python, with i counted from 1
From(s, i) == SubSeq(s, i, Len(s))

\* the positions of character c in s
Positions(s, c) == {i \in 1..Len(s) : s[i] = c}

Max(S) == CHOOSE x \in S : \A y \in S : y <= x

\* str.rstrip(c)
RECURSIVE RStrip(_, _)
RStrip(s, c) ==
    IF s # <<>> /\ s[Len(s)] = c THEN RStrip(SubSeq(s, 1, Len(s) - 1), c) ELSE s

\* a case-insensitive substring test, used to state properties only
ContainsCI(s, sub) ==
    \E i \in 1..Len(s) : StartsWithAt(Lower(s), i, Lower(sub))

(***************************************************************************)
(* posixpath                                                               *)
(***************************************************************************)
\* os.path.split: <<head, tail>>; the head loses its trailing slashes unless
\* it is all slashes
PathSplit(p) ==
    LET i    == IF Positions(p, "/") = {} THEN 0 ELSE Max(Positions(p, "/"))
        head == SubSeq(p, 1, i)
        tail == From(p, i + 1)
    IN  <<IF head # <<>> /\ RStrip(head, "/") # <<>> THEN RStrip(head, "/") ELSE head,
          tail>>

\* os.path.join(a, b)
PathJoin(a, b) ==
    IF b # <<>> /\ b[1] = "/" THEN b
    ELSE IF a = <<>> \/ a[Len(a)] = "/" THEN a \o b
    ELSE a \o <<"/">> \o b

PathJoin3(a, b, c) == PathJoin(PathJoin(a, b), c)

\* os.path.basename, os.path.dirname
Basename(p) == PathSplit(p)[2]

Dirname(p) == PathSplit(p)[1]

\* os.path.splitext: <<root, ext>>; the extension starts at the last dot of
\* the last component, leading dots of the component not counted
SplitExt(p) ==
    LET sep   == IF Positions(p, "/") = {} THEN 0 ELSE Max(Positions(p, "/"))
        dots  == {i \in Positions(p, ".") : i > sep}
        dot   == IF dots = {} THEN 0 ELSE Max(dots)
        named == dot > 0 /\ \E k \in (sep + 1)..(dot - 1) : p[k] # "."
    IN  IF named THEN <<SubSeq(p, 1, dot - 1), From(p, dot)>> ELSE <<p, <<>>>>

(***************************************************************************)
(* The encoding table and the path restructurer                            *)
(***************************************************************************)
L_320  == <<"3","2","0">>
L_V0   == <<"V","0">>
L_V2   == <<"V","2">>
L_V8   == <<"V","8">>
L_Q8   == <<"Q","8">>
L_AAC  == <<"A","A","C">>
L_ALAC == <<"A","L","A","C">>
L_FLAC == <<"F","L","A","C">>
L_WAV  == <<"W","A","V">>
L_AIFF == <<"A","I","F","F">>

E_mp3  == <<".","m","p","3">>
E_ogg  == <<".","o","g","g">>
E_m4a  == <<".","m","4","a">>
E_flac == <<".","f","l","a","c">>
E_wav  == <<".","w","a","v">>
E_aiff == <<".","a","i","f","f">>

\* the labels of enc_opts
EncLabels == {L_320, L_V0, L_V2, L_V8, L_Q8, L_AAC, L_ALAC, L_FLAC, L_WAV, L_AIFF}

\* enc_opts[codec]['ext']
EncExt(codec) ==
    CASE codec \in {L_320, L_V0, L_V2, L_V8} -> E_mp3
      [] codec = L_Q8                        -> E_ogg
      [] codec \in {L_AAC, L_ALAC}           -> E_m4a
      [] codec = L_FLAC                      -> E_flac
      [] codec = L_WAV                       -> E_wav
      [] codec = L_AIFF                      -> E_aiff

FlacOnly == {L_FLAC}

\* the alternatives of re.compile("FLAC|AIFF", re.IGNORECASE)
FlacRe == {L_FLAC, L_AIFF}

\* whether the pattern matches at position i of s
MatchAt(s, i) == \E m \in FlacRe : StartsWithAt(Lower(s), i, Lower(m))

\* flacre.search(s)
Search(s) == \E i \in 1..Len(s) : MatchAt(s, i)

\* flacre.sub(repl, s): leftmost matches, not overlapping, each replaced
RECURSIVE Sub(_, _)
Sub(repl, s) ==
    IF s = <<>> THEN <<>>
    ELSE IF MatchAt(s, 1) THEN repl \o Sub(repl, From(s, 5))
    ELSE <<s[1]>> \o Sub(repl, From(s, 2))

Parenthesised(codec) == <<" ", "(">> \o codec \o <<")">>

change_format_name(file_fullpath, codec) ==
    LET directory_fullpath == PathSplit(file_fullpath)[1]
        filename           == PathSplit(file_fullpath)[2]
        leading_dirs       == PathSplit(directory_fullpath)[1]
        last_dir           == PathSplit(directory_fullpath)[2]
    IN  IF Search(last_dir)
        THEN PathJoin3(leading_dirs, Sub(codec, last_dir), filename)
        ELSE PathJoin3(leading_dirs, last_dir \o Parenthesised(codec), filename)

(***************************************************************************)
(* The metadata reader and the rename engine                               *)
(***************************************************************************)
\* str.upper() on one character
UpperChar(c) ==
    IF \E i \in 1..26 : LowerAlphabet[i] = c
    THEN UpperAlphabet[CHOOSE i \in 1..26 : LowerAlphabet[i] = c]
    ELSE c

Upper(s) == [i \in 1..Len(s) |-> UpperChar(s[i])]

Digits == {"0","1","2","3","4","5","6","7","8","9"}

\* a character of the class \w
IsWord(c) ==
    \/ \E i \in 1..26 : UpperAlphabet[i] = c \/ LowerAlphabet[i] = c
    \/ c \in Digits
    \/ c = "_"

\* the value of a call that returned None, and of one that raised
None == <<"None">>

Raised == <<"raised">>

T_TITLE   == <<"T","I","T","L","E">>
T_ALBUM   == <<"A","L","B","U","M">>
T_ARTIST  == <<"A","R","T","I","S","T">>
T_GENRE   == <<"G","E","N","R","E">>
T_COMMENT == <<"C","O","M","M","E","N","T">>
T_DATE    == <<"D","A","T","E">>
T_TRACK   == <<"T","R","A","C","K">>

copy_tags == {T_TITLE, T_ALBUM, T_ARTIST, T_GENRE, T_COMMENT, T_DATE, T_TRACK}

\* the keys of placeholders, and placeholders[x] (the empty string for f, d)
PlaceholderKeys == {<<"n">>, <<"t">>, <<"a">>, <<"f">>, <<"d">>}

placeholders(x) ==
    CASE x = <<"n">> -> T_TRACK
      [] x = <<"t">> -> T_TITLE
      [] x = <<"a">> -> T_ARTIST
      [] x \in {<<"f">>, <<"d">>} -> <<>>

\* str.replace(old, new) for single characters
ReplaceChar(s, old, new) == [i \in 1..Len(s) |-> IF s[i] = old THEN new ELSE s[i]]

\* line.split("="): the pieces between the "=" signs
RECURSIVE SplitEq(_)
SplitEq(line) ==
    IF Positions(line, "=") = {} THEN <<line>>
    ELSE LET i == CHOOSE k \in Positions(line, "=") : \A j \in Positions(line, "=") : k <= j
         IN  <<SubSeq(line, 1, i - 1)>> \o SplitEq(From(line, i + 1))

\* the loop of tags_from_file over the lines the decoder printed: the dict
\* built so far is a function from tag names to values
RECURSIVE ParseTags(_, _)
ParseTags(lines, tags) ==
    IF lines = <<>> THEN tags
    ELSE LET tag == SplitEq(Head(lines))
         IN  IF Len(tag) # 2 \/ Upper(tag[1]) \notin copy_tags
             THEN ParseTags(Tail(lines), tags)
             ELSE ParseTags(Tail(lines),
                     [k \in DOMAIN tags \cup {Upper(tag[1])} |->
                         IF k = Upper(tag[1])
                         THEN ReplaceChar(ReplaceChar(tag[2], ":", "-"), "/", "-")
                         ELSE tags[k]])

EmptyDict == [k \in {} |-> <<>>]

\* escape_percent
escape_percent(pattern) ==
    IF pattern = <<>> THEN <<>>
    ELSE LET Esc[i \in 0..Len(pattern)] ==
                 IF i = 0 THEN <<>>
                 ELSE Esc[i - 1] \o (IF pattern[i] = "%" THEN <<"%","%">> ELSE <<pattern[i]>>)
         IN  Esc[Len(pattern)]

\* the end of a match of %\w+% that starts at i, or 0: a "%", the longest
\* run of word characters (at least one), a "%"
MatchEnd(pattern, i) ==
    IF i > Len(pattern) \/ pattern[i] # "%" THEN 0
    ELSE LET stops == {j \in (i + 1)..Len(pattern) : ~IsWord(pattern[j])}
             j     == IF stops = {} THEN 0
                      ELSE CHOOSE k \in stops : \A m \in stops : k <= m
         IN  IF j > i + 1 /\ pattern[j] = "%" THEN j ELSE 0

\* the start of the first match at or after position i, or 0
NextMatch(pattern, i) ==
    LET starts == {k \in i..Len(pattern) : MatchEnd(pattern, k) # 0}
    IN  IF starts = {} THEN 0 ELSE CHOOSE k \in starts : \A m \in starts : k <= m

\* the loop of filename_from_tags from position index (counted from 1) with
\* new_filename built so far: the %-format template, or None
RECURSIVE Template(_, _, _, _, _, _)
Template(pattern, tags, dirname, filename, index, new_filename) ==
    LET start == NextMatch(pattern, index)
    IN  IF start = 0
        THEN IF index <= Len(pattern)
             THEN new_filename \o escape_percent(From(pattern, index))
             ELSE new_filename
        ELSE LET end         == MatchEnd(pattern, start)
                 placeholder == SubSeq(pattern, start + 1, end - 1)
                 before      == new_filename \o SubSeq(pattern, index, start - 1)
             IN  IF placeholder \notin PlaceholderKeys THEN None
                 ELSE IF placeholders(placeholder) # <<>>
                         /\ placeholders(placeholder) \notin DOMAIN tags THEN None
                 ELSE Template(pattern, tags, dirname, filename, end + 1,
                         IF placeholders(placeholder) # <<>>
                         THEN before \o <<"%","(">> \o placeholders(placeholder) \o <<")","s">>
                         ELSE IF placeholder = <<"f">> THEN before \o filename
                         ELSE before \o PathSplit(dirname)[2])

\* template % tags: %(KEY)s is replaced by tags[KEY] and %% by %; any other
\* use of % raises
RECURSIVE Format(_, _)
Format(template, tags) ==
    IF template = <<>> THEN <<>>
    ELSE IF template[1] # "%"
    THEN LET rest == Format(Tail(template), tags)
         IN  IF rest = Raised THEN Raised ELSE <<template[1]>> \o rest
    ELSE IF Len(template) >= 2 /\ template[2] = "%"
    THEN LET rest == Format(From(template, 3), tags)
         IN  IF rest = Raised THEN Raised ELSE <<"%">> \o rest
    ELSE IF Len(template) >= 2 /\ template[2] = "(" /\ Positions(template, ")") # {}
    THEN LET close == CHOOSE k \in Positions(template, ")") :
                          \A m \in Positions(template, ")") : k <= m
             key   == SubSeq(template, 3, close - 1)
         IN  IF close < Len(template) /\ template[close + 1] = "s" /\ key \in DOMAIN tags
             THEN LET rest == Format(From(template, close + 2), tags)
                  IN  IF rest = Raised THEN Raised ELSE tags[key] \o rest
             ELSE Raised
    ELSE Raised

filename_from_tags(pattern, tags, dirname, filename) ==
    LET new_filename == Template(pattern, tags, dirname, filename, 1, <<>>)
    IN  IF new_filename = None THEN None
        ELSE IF SplitExt(filename)[2] # SplitExt(new_filename)[2]
        THEN Format(new_filename \o SplitExt(filename)[2], tags)
        ELSE Format(new_filename, tags)

P_d == <<"%","d","%">>

P_f == <<"%","f","%">>

\* the value of an option that was not given (argument_default=False)
NotGiven == <<"False">>

\* do_rename with the tags the decoder subprocess returned
do_rename(rename_pattern, dirname, filename, tags) ==
    filename_from_tags(IF rename_pattern = NotGiven THEN PathJoin(P_d, P_f) ELSE rename_pattern,
                       tags, dirname, filename)

(***************************************************************************)
(* The files of the run: one album directory with two lossless sources of  *)
(* the same stem and a rip log, a playlist and a collection document       *)
(***************************************************************************)
SrcDir     == <<"/","m","/","f","l","a","c">>

F_flac     == SrcDir \o <<"/","a">> \o E_flac

F_aiff     == SrcDir \o <<"/","a">> \o E_aiff

F_log      == SrcDir \o <<"/","r",".","l","o","g">>

Playlist   == <<"/","m","/","l",".","m","3","u">>

Collection == <<"/","m","/","c",".","x","m","l">>

RootDir    == <<"/","m">>

OutDir     == <<"/","o">>

TorrentDir == <<"/","t">>

\* the regular files of the source tree, in the order os.walk(topdown=False)
\* lists them (the order inside one directory is the file system's; one
\* order is fixed here)
WalkOrder == <<F_aiff, F_flac, F_log, Collection, Playlist>>

SourceFiles == {WalkOrder[i] : i \in 1..Len(WalkOrder)}

SourceDirs == {<<"/">>, RootDir, SrcDir}

\* what the decoder prints for a file (ffmpeg -f ffmetadata -): a.flac is
\* tagged, a.aiff is not
DecoderOutput(filepath) ==
    IF filepath = F_flac
    THEN << <<";","F","F","M","E","T","A","D","A","T","A","1">>,
            <<"t","i","t","l","e","=","A",":","B">>,
            <<"t","r","a","c","k","=","1">>,
            <<"e","n","c","o","d","e","r","=","L","a","v","f">> >>
    ELSE << <<";","F","F","M","E","T","A","D","A","T","A","1">> >>

\* tags_from_file
tags_from_file(filepath) == ParseTags(DecoderOutput(filepath), EmptyDict)

\* the lines of the playlist file
PlaylistLines ==
    << <<"#","E","X","T","M","3","U","\n">>,
       F_flac \o <<"\n">>,
       F_log \o <<"\n">>,
       <<"/","m","/","n","o",".","f","l","a","c","\r","\n">> >>

\* the collection document: COLLECTION maps a TrackID to its Location,
\* PLAYLISTS holds a folder node (Type "0") with one playlist node
CollectionTracks ==
    [id \in {"1"} |->
        <<"f","i","l","e",":","/","/","l","o","c","a","l","h","o","s","t">> \o F_flac]

PlaylistsRoot ==
    [Type |-> "0", Name |-> <<"R">>,
     children |-> << [Type |-> "1", Name |-> <<"P">>,
                      children |-> << [Key |-> "1"] >>] >>]

(***************************************************************************)
(* Dispatch and the source enumerators                                     *)
(***************************************************************************)
AudioExts == {E_mp3, E_flac, E_m4a, E_wav, E_aiff, E_ogg}

is_audio_file(filename) == Lower(SplitExt(filename)[2]) \in AudioExts

\* fnmatch(name.lower(), "*.flac") or fnmatch(name.lower(), "*.aiff")
IsLossless(filename_fullpath) ==
    EndsWith(Lower(filename_fullpath), E_flac) \/ EndsWith(Lower(filename_fullpath), E_aiff)

\* os.walk(folder, topdown=False): the files below folder
RECURSIVE WalkFrom(_, _)
WalkFrom(folder, order) ==
    IF order = <<>> THEN <<>>
    ELSE (IF StartsWithAt(Head(order), 1, folder \o <<"/">>) THEN <<Head(order)>> ELSE <<>>)
         \o WalkFrom(folder, Tail(order))

Walk(folder) == WalkFrom(folder, WalkOrder)

\* the track references below a node of the PLAYLISTS tree, in the order
\* parse_xml_playlists visits them: <<playlist name, track key>>
RECURSIVE Flatten(_)
RECURSIVE FlattenAll(_)
Flatten(node) ==
    IF node.Type = "0" THEN FlattenAll(node.children)
    ELSE [i \in 1..Len(node.children) |-> <<node.Name, node.children[i].Key>>]

FlattenAll(nodes) ==
    IF nodes = <<>> THEN <<>> ELSE Flatten(Head(nodes)) \o FlattenAll(Tail(nodes))

\* pathlib.Path(s).parts of a relative path: the pieces between slashes,
\* empty ones dropped
RECURSIVE Parts(_)
Parts(s) ==
    IF s = <<>> THEN <<>>
    ELSE IF Positions(s, "/") = {} THEN <<s>>
    ELSE LET i == CHOOSE k \in Positions(s, "/") : \A j \in Positions(s, "/") : k <= j
         IN  (IF i = 1 THEN <<>> ELSE <<SubSeq(s, 1, i - 1)>>) \o Parts(From(s, i + 1))

RECURSIVE JoinParts(_, _)
JoinParts(base, parts) ==
    IF parts = <<>> THEN base ELSE JoinParts(PathJoin(base, Head(parts)), Tail(parts))

\* urllib.parse.unquote for the escapes of a space and of parentheses
RECURSIVE unquote(_)
unquote(s) ==
    IF s = <<>> THEN <<>>
    ELSE IF StartsWithAt(s, 1, <<"%","2","0">>) THEN <<" ">> \o unquote(From(s, 4))
    ELSE IF StartsWithAt(s, 1, <<"%","2","8">>) THEN <<"(">> \o unquote(From(s, 4))
    ELSE IF StartsWithAt(s, 1, <<"%","2","9">>) THEN <<")">> \o unquote(From(s, 4))
    ELSE <<s[1]>> \o unquote(From(s, 2))

\* the track path parse_xml_playlists builds when opts.root_dir is set
TrackPath(root_dir, location) ==
    unquote(JoinParts(root_dir, From(Parts(location), 4)))

\* the enumerator main picks for a source: splitext keeps the dot of the
\* extension, the playlist test compares without it
Enumerator(source_dir) ==
    LET extension == SplitExt(source_dir)[2]
    IN  IF extension \in {<<"m","3","u">>, <<"m","3","u","8">>} THEN "parse_m3u"
        ELSE IF extension = <<".","x","m","l">> THEN "parse_xml"
        ELSE "parse_folder"

(***************************************************************************)
(* The state                                                               *)
(***************************************************************************)
VARIABLES
    codecs,        \* the module-level list EncoderArg fills
    opts,          \* the argparse namespace, shared by main and every task
    given_rename,  \* history: opts.rename as the operator gave it
    corrupt,       \* the sources on which the encoder exits non-zero
    mainpc,        \* where main is
    ci, si,        \* the positions of the two loops of main
    enumerator,    \* the enumerator reading the current source
    pending,       \* what the current enumerator has still to visit
    routed,        \* history: <<codec, source, enumerator>> per source read
    tasks,         \* the tasks submitted to the pool, in submission order
    lock,          \* the threading.Lock of main: 0, or the task holding it
    dirs,          \* the directories that exist
    files,         \* the regular files that exist outside the source tree
    created,       \* history: the directories mkdir created, in order
    torrents,      \* history: the <<codec, source>> pairs make_torrent was
                   \* called for (no step of main calls it)
    p_pc, p_path, p_codec, p_once, p_twice   \* the path restructurer alone

vars == <<codecs, opts, given_rename, corrupt, mainpc, ci, si, enumerator, pending,
          routed, tasks, lock, dirs, files, created, torrents,
          p_pc, p_path, p_codec, p_once, p_twice>>

mainVars == <<mainpc, ci, si, enumerator, pending, routed>>

pathVars == <<p_pc, p_path, p_codec, p_once, p_twice>>

poolVars == <<codecs, opts, given_rename, corrupt, mainpc, ci, si, enumerator, pending,
              routed, tasks, lock, dirs, files, created, torrents>>

(***************************************************************************)
(* Bounds and the inputs of a run                                          *)
(***************************************************************************)
MaxThreads == 2

MaxCodecs == 2

MaxSources == 2

MaxPairs == 2

P_nt == <<"%","n","%"," ","-"," ","%","t","%">>

\* the sequences without repetition of at most n elements of S
NoRepeat(S, n) ==
    UNION {{q \in [1..k -> S] : \A i, j \in 1..k : i # j => q[i] # q[j]} : k \in 1..n}

CodecLists == NoRepeat({L_V2, L_FLAC}, MaxCodecs)

SourceLists == NoRepeat({SrcDir, Playlist, Collection}, MaxSources)

RenamePatterns == {NotGiven, P_f, P_nt}

\* the destination of a.flac under the default pattern and V2, which a
\* run may find already there
OldDir  == OutDir \o <<"/">> \o L_V2

OldFile == OldDir \o <<"/","a">> \o E_mp3

(***************************************************************************)
(* The tasks                                                               *)
(***************************************************************************)
\* TranscodeTask.__init__ / CopyTask.__init__, with the fields that record
\* what execute has done so far
NewTask(kind, source, destination, codec, rename_pattern, from) ==
    [kind |-> kind, source |-> source, destination |-> destination,
     codec |-> codec, rename_pattern |-> rename_pattern,
     from |-> from,             \* history: the enumerator that dispatched it
     pair |-> Len(routed),      \* history: the <<codec, source>> it belongs to
     pc |-> "queued", dest_fullpath |-> None, result |-> "none",
     existed |-> "untested",    \* history: what os.path.exists answered execute
     rc |-> -1,                 \* the exit status of the encoder, once run
     spawned |-> {},            \* the subprocesses execute has started
     wrote |-> {}]              \* the files execute has written

\* task_dispatch: the task submitted for a file
task_dispatch(filename_fullpath, codec, o, from) ==
    IF IsLossless(filename_fullpath)
    THEN NewTask("Transcode", filename_fullpath, o.output, codec, o.rename, from)
    ELSE NewTask("Copy", filename_fullpath, o.output, codec, o.rename, from)

\* TranscodeTask.execute up to the lock: the destination path, or Raised
\* when do_rename returned None (os.path.join then raises TypeError) or the
\* formatting raised
TranscodeDest(task) ==
    LET dest_filename == do_rename(task.rename_pattern, PathSplit(task.source)[1],
                                   PathSplit(task.source)[2], tags_from_file(task.source))
    IN  IF dest_filename \in {None, Raised} THEN Raised
        ELSE SplitExt(change_format_name(PathJoin(task.destination, dest_filename),
                                         task.codec))[1] \o EncExt(task.codec)

\* CopyTask.execute up to the lock
CopyDest(task) ==
    IF is_audio_file(task.source)
    THEN LET dest_filename == do_rename(task.rename_pattern, PathSplit(task.source)[1],
                                        PathSplit(task.source)[2], tags_from_file(task.source))
         IN  IF dest_filename \in {None, Raised} THEN Raised
             ELSE change_format_name(
                      SplitExt(PathJoin(task.destination, dest_filename))[1]
                          \o SplitExt(task.source)[2],
                      task.codec)
    ELSE change_format_name(
             PathJoin3(task.destination, Basename(PathSplit(task.source)[1]),
                       PathSplit(task.source)[2]),
             task.codec)

\* the subprocesses execute starts before the lock: do_rename runs the
\* decoder for a Transcode task and for the Copy of an audio file
SpawnsDecoder(task) == task.kind = "Transcode" \/ is_audio_file(task.source)

ExistOkFalse == FALSE

\* the exist_ok argument of os.makedirs in both execute methods
ExistOk == TRUE

\* os.path.exists
Exists(path) == path \in dirs \/ path \in files \/ path \in SourceFiles

Running(t) == tasks[t].pc \notin {"queued", "done"}

\* a worker thread is idle and t is the first task waiting in the queue
CanStart(t) ==
    /\ tasks[t].pc = "queued"
    /\ \A u \in 1..(t - 1) : tasks[u].pc # "queued"
    /\ Cardinality({u \in 1..Len(tasks) : Running(u)}) < opts.max_threads

\* execute, from its first line to the lock
TaskBegin(t) ==
    /\ CanStart(t)
    /\ LET task == tasks[t]
           dest == IF task.kind = "Transcode" THEN TranscodeDest(task) ELSE CopyDest(task)
           sp   == IF SpawnsDecoder(task) THEN {"decoder"} ELSE {}
       IN  tasks' = [tasks EXCEPT ![t] =
                        IF dest = Raised
                        THEN [task EXCEPT !.pc = "done", !.result = "exception", !.spawned = sp]
                        ELSE [task EXCEPT !.pc = "lock", !.dest_fullpath = dest, !.spawned = sp]]
    /\ UNCHANGED <<codecs, opts, given_rename, corrupt, mainVars, lock, dirs, files,
                   created, torrents, pathVars>>

\* with lock: (the acquire)
TaskLock(t) ==
    /\ tasks[t].pc = "lock"
    /\ lock = 0
    /\ lock' = t
    /\ tasks' = [tasks EXCEPT ![t].pc = "makedirs"]
    /\ UNCHANGED <<codecs, opts, given_rename, corrupt, mainVars, dirs, files,
                   created, torrents, pathVars>>

\* the directories os.makedirs(d) has to create, outermost first
RECURSIVE MissingDirs(_)
MissingDirs(d) ==
    IF d = <<>> \/ PathSplit(d)[1] = d \/ d \in dirs THEN <<>>
    ELSE MissingDirs(PathSplit(d)[1]) \o <<d>>

\* os.makedirs(os.path.dirname(dest_fullpath), exist_ok=True) and the release
\* of the lock; without exist_ok an existing directory raises FileExistsError
TaskMakedirs(t) ==
    /\ tasks[t].pc = "makedirs"
    /\ lock = t
    /\ lock' = 0
    /\ LET d == Dirname(tasks[t].dest_fullpath)
       IN  IF d \in dirs /\ ~ExistOk
           THEN /\ tasks' = [tasks EXCEPT ![t].pc = "done", ![t].result = "FileExistsError"]
                /\ UNCHANGED <<dirs, created>>
           ELSE /\ dirs' = dirs \cup {MissingDirs(d)[i] : i \in 1..Len(MissingDirs(d))}
                /\ created' = created \o MissingDirs(d)
                /\ tasks' = [tasks EXCEPT ![t].pc =
                                IF tasks[t].kind = "Transcode" THEN "check" ELSE "copy"]
    /\ UNCHANGED <<codecs, opts, given_rename, corrupt, mainVars, files, torrents, pathVars>>

\* if os.path.exists(dest_fullpath) and not opts.overwrite: ... return 1
SkipsWhenOverwrite(t) == Exists(tasks[t].dest_fullpath) /\ opts.overwrite

SkipsExisting(t) == Exists(tasks[t].dest_fullpath) /\ ~opts.overwrite

TranscodeCheck(t) ==
    /\ tasks[t].pc = "check"
    /\ tasks' = [tasks EXCEPT ![t] =
                    LET e == IF Exists(tasks[t].dest_fullpath) THEN "yes" ELSE "no"
                    IN  IF SkipsExisting(t)
                        THEN [@ EXCEPT !.pc = "done", !.result = "1", !.existed = e]
                        ELSE [@ EXCEPT !.pc = "encode", !.existed = e]]
    /\ UNCHANGED <<codecs, opts, given_rename, corrupt, mainVars, lock, dirs, files,
                   created, torrents, pathVars>>

\* the exit status of the encoder: the encoder is an external program,
\* which fails on the corrupt sources
EncoderExit(source) == IF source \in corrupt THEN 1 ELSE 0

\* subprocess.Popen(self.cmd ...), the read of its stderr to the end, and
\* return 0: the exit status is not looked at
TranscodeEncode(t) ==
    /\ tasks[t].pc = "encode"
    /\ LET rc == EncoderExit(tasks[t].source)
       IN  /\ tasks' = [tasks EXCEPT ![t] =
                           [@ EXCEPT !.pc = "done", !.result = "0", !.rc = rc,
                                     !.spawned = @ \cup {"encoder"},
                                     !.wrote = IF rc = 0 THEN @ \cup {tasks[t].dest_fullpath}
                                               ELSE @]]
           /\ files' = IF rc = 0 THEN files \cup {tasks[t].dest_fullpath} ELSE files
    /\ UNCHANGED <<codecs, opts, given_rename, corrupt, mainVars, lock, dirs,
                   created, torrents, pathVars>>

\* shutil.copy(self.source, dest_fullpath) and return 0
CopyFile(t) ==
    /\ tasks[t].pc = "copy"
    /\ tasks' = [tasks EXCEPT ![t] =
                    [@ EXCEPT !.pc = "done", !.result = "0",
                              !.wrote = @ \cup {tasks[t].dest_fullpath}]]
    /\ files' = files \cup {tasks[t].dest_fullpath}
    /\ UNCHANGED <<codecs, opts, given_rename, corrupt, mainVars, lock, dirs,
                   created, torrents, pathVars>>

(***************************************************************************)
(* main                                                                    *)
(***************************************************************************)
\* what an enumerator has to visit: the files of the walk, the lines of the
\* playlist, the track references of the collection document
ToVisit(e, source_dir) ==
    CASE e = "parse_folder" -> Walk(source_dir)
      [] e = "parse_m3u"    -> PlaylistLines
      [] e = "parse_xml"    -> Flatten(PlaylistsRoot)

\* the position of the loops after the source at <<c, s>>
NextIndex(c, s) == IF s < Len(opts.sources) THEN <<c, s + 1>> ELSE <<c + 1, 1>>

\* the loop header of main with a source left: the enumerator is picked by
\* the extension and entered; parse_folder first makes opts.torrent_dir
MainRoute ==
    /\ mainpc = "loop"
    /\ ci <= Len(codecs)
    /\ LET source_dir == opts.sources[si]
           e          == Enumerator(source_dir)
           mk         == IF e = "parse_folder" /\ ~Exists(opts.torrent_dir)
                         THEN MissingDirs(opts.torrent_dir) ELSE <<>>
       IN  /\ enumerator' = e
           /\ routed' = Append(routed, <<codecs[ci], source_dir, e>>)
           /\ pending' = ToVisit(e, source_dir)
           /\ dirs' = dirs \cup {mk[i] : i \in 1..Len(mk)}
           /\ created' = created \o mk
           /\ mainpc' = "enumerate"
    /\ UNCHANGED <<codecs, opts, given_rename, corrupt, ci, si, tasks, lock, files,
                   torrents, pathVars>>

\* one pass of the loop of parse_folder: the file is dispatched
VisitFile ==
    /\ tasks' = Append(tasks, task_dispatch(Head(pending), codecs[ci], opts, enumerator))
    /\ pending' = Tail(pending)
    /\ UNCHANGED <<opts, mainpc>>

\* one pass of the loop of parse_m3u: comments, files that are not audio and
\* missing files are passed over; otherwise opts.rename is set when it is
\* not, and the track is dispatched
VisitLine ==
    /\ LET line       == Head(pending)
           track_file == RStrip(RStrip(RStrip(line, "\n"), "\r"), "\n")
           renamed    == [opts EXCEPT !.rename = IF @ = NotGiven THEN P_f ELSE @]
       IN  IF line[1] = "#" \/ ~is_audio_file(track_file) \/ track_file \notin SourceFiles
           THEN UNCHANGED <<opts, tasks>>
           ELSE /\ opts' = renamed
                /\ tasks' = Append(tasks, task_dispatch(track_file, codecs[ci], renamed,
                                                        enumerator))
    /\ pending' = Tail(pending)
    /\ UNCHANGED mainpc

\* one pass of the loop of parse_xml_playlists over the tracks of a playlist
\* node: without opts.root_dir the slice of a Path raises TypeError, which
\* leaves main through the with block; with it opts.rename becomes
\* "<playlist name>/%f%" and the track is dispatched
VisitTrack ==
    IF opts.root_dir = None
    THEN /\ mainpc' = "raising"
         /\ pending' = <<>>
         /\ UNCHANGED <<opts, tasks>>
    ELSE LET playlist_name == Head(pending)[1]
             track_path    == TrackPath(opts.root_dir, CollectionTracks[Head(pending)[2]])
             renamed       == [opts EXCEPT !.rename = playlist_name \o <<"/">> \o P_f]
         IN  /\ opts' = renamed
             /\ tasks' = Append(tasks, task_dispatch(track_path, codecs[ci], renamed,
                                                     enumerator))
             /\ pending' = Tail(pending)
             /\ UNCHANGED mainpc

\* the enumerator main entered visits its next item
Visit ==
    /\ mainpc = "enumerate"
    /\ pending # <<>>
    /\ CASE enumerator = "parse_folder" -> VisitFile
         [] enumerator = "parse_m3u"    -> VisitLine
         [] enumerator = "parse_xml"    -> VisitTrack
    /\ UNCHANGED <<codecs, given_rename, corrupt, ci, si, enumerator, routed,
                   lock, dirs, files, created, torrents, pathVars>>

\* the enumerator returns: main goes on with the next source, or the next
\* codec; nothing else follows the call of the enumerator in main
EnumeratorReturns ==
    /\ mainpc = "enumerate" /\ pending = <<>>
    /\ ci' = NextIndex(ci, si)[1]
    /\ si' = NextIndex(ci, si)[2]
    /\ mainpc' = "loop"
    /\ UNCHANGED <<codecs, opts, given_rename, corrupt, enumerator, pending, routed, tasks,
                   lock, dirs, files, created, torrents, pathVars>>

\* the loops are over: main reaches the end of the with block
LoopsEnd ==
    /\ mainpc = "loop"
    /\ ci > Len(codecs)
    /\ mainpc' = "shutdown"
    /\ UNCHANGED <<codecs, opts, given_rename, corrupt, ci, si, enumerator, pending, routed,
                   tasks, lock, dirs, files, created, torrents, pathVars>>

\* ThreadPoolExecutor.__exit__: shutdown(wait=True) returns when every
\* submitted task has run; main then ends, by the exception if one is raised
PoolExit ==
    /\ mainpc \in {"shutdown", "raising"}
    /\ \A t \in 1..Len(tasks) : tasks[t].pc = "done"
    /\ mainpc' = IF mainpc = "raising" THEN "crashed" ELSE "exited"
    /\ UNCHANGED <<codecs, opts, given_rename, corrupt, ci, si, enumerator, pending, routed,
                   tasks, lock, dirs, files, created, torrents, pathVars>>

(***************************************************************************)
(* The specification of a run of main                                      *)
(***************************************************************************)
\* the runs checked.  A run is a command line (the codecs, the sources and
\* the options) and the files it finds (whether the encoder fails on a.aiff,
\* whether the destination of a.flac is already there)
Run(c, s, rename, overwrite, root_dir, excl, notorrent, bad, old) ==
    [codecs |-> c, sources |-> s, rename |-> rename, overwrite |-> overwrite,
     root_dir |-> root_dir, excl |-> excl, notorrent |-> notorrent,
     corrupt |-> bad, old |-> old]

\* one codec on the album directory, under every pattern, overwrite policy
\* and state of the files
RunsFiles ==
    {Run(<<L_V2>>, <<SrcDir>>, rename, overwrite, None, FALSE, FALSE, bad, old) :
        rename \in RenamePatterns, overwrite \in BOOLEAN,
        bad \in {{}, {F_aiff}}, old \in BOOLEAN}

\* the same with the exclusion flags (--nolog --nocue --nodots) or
\* --notorrent given
RunsFlags ==
    {Run(<<L_V2>>, <<SrcDir>>, NotGiven, FALSE, None, fl[1], fl[2], {}, FALSE) :
        fl \in {<<TRUE, FALSE>>, <<FALSE, TRUE>>}}

\* every list of codecs and of sources that makes at most MaxPairs pairs,
\* with and without --root-dir and --rename
RunsLists ==
    {Run(c, s, rename, FALSE, root_dir, FALSE, FALSE, {}, FALSE) :
        c \in CodecLists, s \in SourceLists,
        rename \in {NotGiven, P_f}, root_dir \in {None, RootDir}}

Runs == {r \in RunsFiles \cup RunsFlags \cup RunsLists :
            Len(r.codecs) * Len(r.sources) <= MaxPairs}

Init ==
    /\ \E r \in Runs :
          /\ codecs = r.codecs
          /\ opts = [sources |-> r.sources, rename |-> r.rename, overwrite |-> r.overwrite,
                     root_dir |-> r.root_dir, output |-> OutDir, torrent_dir |-> TorrentDir,
                     nolog |-> r.excl, nocue |-> r.excl, nodots |-> r.excl,
                     notorrent |-> r.notorrent, max_threads |-> MaxThreads]
          /\ given_rename = r.rename
          /\ corrupt = r.corrupt
          /\ dirs = SourceDirs \cup (IF r.old THEN {OutDir, OldDir} ELSE {})
          /\ files = IF r.old THEN {OldFile} ELSE {}
    /\ mainpc = "loop" /\ ci = 1 /\ si = 1
    /\ enumerator = "none" /\ pending = <<>> /\ routed = <<>>
    /\ tasks = <<>>
    /\ lock = 0
    /\ created = <<>>
    /\ torrents = {}
    /\ p_pc = 0 /\ p_path = <<>> /\ p_codec = <<>> /\ p_once = <<>> /\ p_twice = <<>>

Next ==
    \/ MainRoute
    \/ Visit
    \/ EnumeratorReturns
    \/ LoopsEnd
    \/ PoolExit
    \/ \E t \in 1..Len(tasks) :
          \/ TaskBegin(t)
          \/ TaskLock(t)
          \/ TaskMakedirs(t)
          \/ TranscodeCheck(t)
          \/ TranscodeEncode(t)
          \/ CopyFile(t)

Spec == Init /\ [][Next]_vars

(***************************************************************************)
(* Properties of a run of main                                             *)
(***************************************************************************)
TaskIds == 1..Len(tasks)

Range(q) == {q[i] : i \in 1..Len(q)}

\* execute is past its os.makedirs
PastMakedirs(t) ==
    \/ tasks[t].pc \in {"check", "encode", "copy"}
    \/ tasks[t].pc = "done" /\ tasks[t].result \in {"0", "1"}

(***************************************************************************)
(* C2.  Each source is read by the enumerator its extension selects:       *)
(* .m3u and .m3u8 by parse_m3u, .xml by parse_xml, everything else by      *)
(* parse_folder.                                                           *)
(***************************************************************************)
C2RoutedByExtension ==
    \A i \in 1..Len(routed) :
        LET ext == SplitExt(routed[i][2])[2]
        IN  routed[i][3] =
                IF ext \in {<<".","m","3","u">>, <<".","m","3","u","8">>} THEN "parse_m3u"
                ELSE IF ext = <<".","x","m","l">> THEN "parse_xml"
                ELSE "parse_folder"

\* the sentinel file of the directory of a destination
Sentinel(dest) == PathJoin(Dirname(dest), <<"F","A","I","L","U","R","E">>)

(***************************************************************************)
(* C3.  A Transcode task whose encoder exited with a non-zero status ends  *)
(* as failed, not as a success, and the FAILURE sentinel is in its         *)
(* destination directory.                                                  *)
(***************************************************************************)
C3EncodeFailureReported ==
    \A t \in TaskIds :
        (tasks[t].pc = "done" /\ tasks[t].rc > 0) =>
            /\ tasks[t].result # "0"
            /\ Sentinel(tasks[t].dest_fullpath) \in files

\* the Transcode tasks that found their destination there with overwrite off
FoundExisting(t) ==
    /\ tasks[t].kind = "Transcode"
    /\ tasks[t].existed = "yes"
    /\ ~opts.overwrite

(***************************************************************************)
(* C4.  A Transcode task that finds its destination file there, with       *)
(* overwrite disabled, returns Skipped (1), has started no subprocess at   *)
(* all and has written no file.                                            *)
(* This fails: do_rename has run the decoder before the test.              *)
(***************************************************************************)
C4SkipSpawnsNothing ==
    \A t \in TaskIds :
        FoundExisting(t) =>
            /\ tasks[t].pc = "done" /\ tasks[t].result = "1"
            /\ tasks[t].spawned = {}
            /\ tasks[t].wrote = {}

(***************************************************************************)
(* C4, amended.  A Transcode task that finds its destination file there,   *)
(* with overwrite disabled, returns Skipped (1), has not started the       *)
(* encoder and has written no file (no destination, no sentinel); the one  *)
(* subprocess it has started is the decoder that read the tags.            *)
(***************************************************************************)
C4SkipSpawnsNoEncoder ==
    \A t \in TaskIds :
        FoundExisting(t) =>
            /\ tasks[t].pc = "done" /\ tasks[t].result = "1"
            /\ tasks[t].spawned = {"decoder"}
            /\ tasks[t].wrote = {}

\* a task was skipped because the file of an earlier run was there, and
\* that file is still the only one
C4Witness ==
    \E t \in TaskIds :
        /\ FoundExisting(t)
        /\ tasks[t].pc = "done"
        /\ tasks[t].dest_fullpath = OldFile
        /\ files = {OldFile}

(***************************************************************************)
(* C5.  Tasks that share a destination directory: no task fails on the     *)
(* creation of the directory, the directory is there for every task that   *)
(* is past its makedirs (so before it tests or writes its file), and no    *)
(* directory is created twice.                                             *)
(***************************************************************************)
C5DirectoryCreatedOnce ==
    /\ \A t \in TaskIds : tasks[t].result # "FileExistsError"
    /\ \A t \in TaskIds : PastMakedirs(t) => Dirname(tasks[t].dest_fullpath) \in dirs
    /\ \A i, j \in 1..Len(created) : i # j => created[i] # created[j]
    /\ Range(created) \subseteq dirs

\* two tasks are executing at once, both past makedirs, in one directory
\* that this run created
C5Witness ==
    \E t, u \in TaskIds :
        /\ t # u
        /\ tasks[t].pc \in {"check", "encode", "copy"}
        /\ tasks[u].pc \in {"check", "encode", "copy"}
        /\ Dirname(tasks[t].dest_fullpath) = Dirname(tasks[u].dest_fullpath)
        /\ Dirname(tasks[t].dest_fullpath) \in Range(created)

(***************************************************************************)
(* C6.  When packaging is enabled, the packaging of a (source, codec) pair *)
(* runs once the tasks dispatched for the pair are complete: when main has *)
(* left the pool, every pair that had tasks has been packaged.             *)
(***************************************************************************)
C6PackagedAfterPair ==
    (mainpc = "exited" /\ ~opts.notorrent) =>
        \A i \in 1..Len(routed) :
            (\E t \in TaskIds : tasks[t].pair = i /\ tasks[t].pc = "done")
                => <<routed[i][1], routed[i][2]>> \in torrents

\* a file the exclusion flags in effect keep from being copied
Excluded(filename) ==
    \/ opts.nolog /\ EndsWith(Lower(filename), <<".","l","o","g">>)
    \/ opts.nocue /\ EndsWith(Lower(filename), <<".","c","u","e">>)
    \/ opts.nodots /\ Basename(filename) # <<>> /\ Basename(filename)[1] = "."

(***************************************************************************)
(* C7.  A file the directory walker found has a Transcode task when its    *)
(* extension is .flac or .aiff, and otherwise a Copy task unless the       *)
(* exclusion flags in effect (log files, cue sheets, dotfiles) exclude it. *)
(***************************************************************************)
C7DispatchByExtensionAndFlags ==
    \A t \in TaskIds :
        tasks[t].from = "parse_folder" =>
            IF IsLossless(tasks[t].source)
            THEN tasks[t].kind = "Transcode"
            ELSE tasks[t].kind = "Copy" /\ ~Excluded(tasks[t].source)

(***************************************************************************)
(* C8.  The destination path a task computes lies under its destination    *)
(* root: the root, unmodified, followed by a slash, starts the path.       *)
(***************************************************************************)
C8UnderDestinationRoot ==
    \A t \in TaskIds :
        tasks[t].dest_fullpath # None =>
            StartsWithAt(tasks[t].dest_fullpath, 1, tasks[t].destination \o <<"/">>)

(***************************************************************************)
(* C9.  With overwrite disabled, no two Transcode tasks run the encoder on *)
(* the same destination path.                                              *)
(***************************************************************************)
C9OneEncoderPerDestination ==
    ~opts.overwrite =>
        \A t, u \in TaskIds :
            (/\ t # u
             /\ "encoder" \in tasks[t].spawned
             /\ "encoder" \in tasks[u].spawned)
                => tasks[t].dest_fullpath # tasks[u].dest_fullpath

(***************************************************************************)
(* C10.  Every task dispatched from a directory tree carries the rename    *)
(* pattern the operator gave (or none), whatever sources were read before. *)
(***************************************************************************)
C10FolderTasksCarryGivenRename ==
    \A t \in TaskIds :
        tasks[t].from = "parse_folder" => tasks[t].rename_pattern = given_rename

(***************************************************************************)
(* The path restructurer alone: change_format_name applied to a path and   *)
(* then to its own result                                                  *)
(***************************************************************************)
MaxChunks == 3

C_lower == <<"f","l","a","c">>

C_aiff  == <<"a","i","f","f">>

C_AIF   == <<"A","I","F">>

C_x     == <<"x">>

\* the pieces the directory names are made of: the markers in both cases,
\* the start of a marker, a letter, and a label in parentheses
Chunks == {L_FLAC, C_lower, C_aiff, C_AIF, C_x, Parenthesised(L_V2)}

RECURSIVE Concat(_)
Concat(q) == IF q = <<>> THEN <<>> ELSE Head(q) \o Concat(Tail(q))

DirNames == {Concat(q) : q \in UNION {[1..k -> Chunks] : k \in 0..MaxChunks}}

FileNames == {<<"a">> \o E_flac, C_lower}

PathInputs ==
    {PathJoin3(lead, d, f) : lead \in {<<>>, RootDir}, d \in DirNames, f \in FileNames}

InitPath ==
    /\ p_pc = 0
    /\ p_path \in PathInputs
    /\ p_codec \in EncLabels
    /\ p_once = <<>> /\ p_twice = <<>>
    /\ codecs = <<>>
    /\ opts = [sources |-> <<>>, rename |-> NotGiven, overwrite |-> FALSE,
               root_dir |-> None, output |-> OutDir, torrent_dir |-> TorrentDir,
               nolog |-> FALSE, nocue |-> FALSE, nodots |-> FALSE,
               notorrent |-> FALSE, max_threads |-> MaxThreads]
    /\ given_rename = NotGiven
    /\ corrupt = {}
    /\ mainpc = "loop" /\ ci = 1 /\ si = 1
    /\ enumerator = "none" /\ pending = <<>> /\ routed = <<>>
    /\ tasks = <<>>
    /\ lock = 0
    /\ dirs = SourceDirs /\ files = {}
    /\ created = <<>>
    /\ torrents = {}

RestructureOnce ==
    /\ p_pc = 0
    /\ p_once' = change_format_name(p_path, p_codec)
    /\ p_pc' = 1
    /\ UNCHANGED <<p_path, p_codec, p_twice, poolVars>>

RestructureTwice ==
    /\ p_pc = 1
    /\ p_twice' = change_format_name(p_once, p_codec)
    /\ p_pc' = 2
    /\ UNCHANGED <<p_path, p_codec, p_once, poolVars>>

NextPath == RestructureOnce \/ RestructureTwice

SpecPath == InitPath /\ [][NextPath]_vars

(***************************************************************************)
(* C1.  Restructuring a path twice with the same label gives what          *)
(* restructuring it once gives, for every path and every label.            *)
(* This fails: a label that is no marker is appended a second time.        *)
(***************************************************************************)
C1Idempotent == p_pc = 2 => p_twice = p_once

\* the parent directory name of the input path
LastDir(path) == PathSplit(PathSplit(path)[1])[2]

(***************************************************************************)
(* C1, amended.  Restructuring twice equals restructuring once exactly     *)
(* when the label is itself a marker (FLAC or AIFF), except for label FLAC *)
(* on a parent directory name that contains AIFAIFF (in any case), where   *)
(* the first pass leaves AIF before the new FLAC; with every other label   *)
(* the second pass appends the label again.                                *)
(***************************************************************************)
C1IdempotentForMarkers ==
    p_pc = 2 =>
        ((p_twice = p_once) <=>
            \/ p_codec = L_AIFF
            \/ p_codec = L_FLAC /\ ~ContainsCI(LastDir(p_path), C_AIF \o L_AIFF))

\* a path whose parent directory has no marker was restructured twice with
\* label AIFF
C1Witness ==
    /\ p_pc = 2
    /\ p_codec = L_AIFF
    /\ ~Search(LastDir(p_path))
    /\ LastDir(p_path) # <<>>
    /\ p_twice = p_once

====
